---- MODULE Spec2Model ----
(***************************************************************************)
(* State-machine model of the SQLite JSONB deserializer in src/src/de.rs.  *)
(*                                                                         *)
(* The byte source is the in-memory slice of Deserializer::from_bytes: the *)
(* variable reader is the part of the slice not yet consumed, exactly as   *)
(* the &[u8] reader of the source shrinks from the front.  One action      *)
(* models each serde entry point (deserialize_any, deserialize_bool, the   *)
(* eight integer entry points, and the entry points whose body is todo!()),*)
(* and one action models the trailing-data check of from_bytes.            *)
(*                                                                         *)
(* usize is 64 bits wide in the source (read_header fills an 8-byte        *)
(* buffer for usize::from_be_bytes).  The inputs of the model keep the     *)
(* declared lengths small, so no arithmetic here reaches that width.       *)
(***************************************************************************)
EXTENDS Integers, Sequences, FiniteSets

VARIABLES input, shape, reader, header, after_header, t, result, pc

vars == <<input, shape, reader, header, after_header, t, result, pc>>

(***************************************************************************)
(* Bounds of the model.                                                    *)
(***************************************************************************)
\* longest literal text placed after a header
MaxBody == 3
\* largest value of the low-order byte of a generated length field
MaxLenByte == 3
\* most bytes appended after the literal text
MaxExtra == 1

(***************************************************************************)
(* Program constants.                                                      *)
(***************************************************************************)
\* let mut buf = [0u8; 256] in drop_payload
ChunkSize == 256
\* let mut buf = [0u8; 8] in read_header
SizeBytes == 8

Min(a, b) == IF a < b THEN a ELSE b

(***************************************************************************)
(* enum ElementType, in declaration order; the low nibble n of the first   *)
(* header byte selects entry n + 1.                                        *)
(***************************************************************************)
ElementType ==
    << "Null", "True", "False", "Int", "Int5", "Float", "Float5", "Text",
       "TextJ", "Text5", "TextRaw", "Array", "Object", "Reserved13",
       "Reserved14", "Reserved15" >>

\* struct Header; NoHeader stands for "read_header has not returned Ok"
Header(et, ps) == [element_type |-> et, payload_size |-> ps]
NoHeader == Header("none", 0)

(***************************************************************************)
(* Result values.  A value is a pair <<tag, n>> so that values of          *)
(* different kinds stay comparable.                                        *)
(***************************************************************************)
NoValue == <<"none", 0>>
UnitVal == <<"unit", 0>>
BoolVal(b) == <<"bool", IF b THEN 1 ELSE 0>>
IntVal(n) == <<"int", n>>

Ok(v) == [kind |-> "Ok", val |-> v, err |-> "none", etype |-> "none"]
Err(e) == [kind |-> "Err", val |-> NoValue, err |-> e, etype |-> "none"]
\* Error::UnexpectedType(t)
UnexpectedType(et) ==
    [kind |-> "Err", val |-> NoValue, err |-> "UnexpectedType", etype |-> et]
\* todo!() unwinds instead of returning
Panic == [kind |-> "Panic", val |-> NoValue, err |-> "none", etype |-> "none"]
NoResult == [kind |-> "None", val |-> NoValue, err |-> "none", etype |-> "none"]

(***************************************************************************)
(* <&[u8] as Read>::read_exact as the source uses it: n bytes are taken    *)
(* from the front of the slice, or the call fails when fewer remain.  What *)
(* a failed call leaves of the slice depends on the standard library the   *)
(* crate is built with (untouched, or emptied); drain selects which.       *)
(***************************************************************************)
read_exact(r, n, drain) ==
    IF n > Len(r)
    THEN [ok |-> FALSE, buf |-> <<>>, reader |-> IF drain THEN <<>> ELSE r]
    ELSE [ok |-> TRUE, buf |-> SubSeq(r, 1, n),
          reader |-> SubSeq(r, n + 1, Len(r))]

\* bytes_to_read with the 4-byte mode reading 2 bytes
bytes_to_read_short(upper_four_bits) ==
    CASE upper_four_bits <= 11 -> 0
      [] upper_four_bits = 12 -> 1
      [] upper_four_bits = 13 -> 2
      [] upper_four_bits = 14 -> 2
      [] OTHER -> 8

\* match upper_four_bits { 0..=11 => 0, 12 => 1, 13 => 2, 14 => 4, 15 => 8 }
bytes_to_read(upper_four_bits) ==
    CASE upper_four_bits <= 11 -> 0
      [] upper_four_bits = 12 -> 1
      [] upper_four_bits = 13 -> 2
      [] upper_four_bits = 14 -> 4
      [] OTHER -> 8

\* usize::from_be_bytes(buf)
RECURSIVE from_be_bytes(_)
from_be_bytes(buf) ==
    IF buf = <<>> THEN 0
    ELSE from_be_bytes(SubSeq(buf, 1, Len(buf) - 1)) * 256 + buf[Len(buf)]

Zeros(n) == [i \in 1..n |-> 0]

\* read_header refusing a length field that a shorter mode could hold
read_header_minimal(r, drain) ==
    LET h0 == read_exact(r, 1, drain) IN
    IF ~h0.ok
    THEN [ok |-> FALSE, header |-> NoHeader, reader |-> h0.reader]
    ELSE
      LET first_byte == h0.buf[1]
          upper_four_bits == first_byte \div 16
          n == bytes_to_read(upper_four_bits)
          start == SizeBytes - n
          rd == read_exact(h0.reader, n, drain)
          lower_four_bits == first_byte % 16
          element_type == ElementType[lower_four_bits + 1]
      IN IF n = 0
         THEN [ok |-> TRUE, header |-> Header(element_type, upper_four_bits),
               reader |-> h0.reader]
         ELSE IF ~rd.ok \/ rd.buf[1] = 0
         THEN [ok |-> FALSE, header |-> NoHeader, reader |-> rd.reader]
         ELSE [ok |-> TRUE,
               header |-> Header(element_type,
                                 from_be_bytes(Zeros(start) \o rd.buf)),
               reader |-> rd.reader]

(***************************************************************************)
(* Deserializer::read_header.  Returns whether it succeeded, the Header    *)
(* and the reader it leaves.                                               *)
(***************************************************************************)
read_header(r, drain) ==
    LET h0 == read_exact(r, 1, drain) IN
    IF ~h0.ok
    THEN [ok |-> FALSE, header |-> NoHeader, reader |-> h0.reader]
    ELSE
      LET first_byte == h0.buf[1]
          upper_four_bits == first_byte \div 16
          n == bytes_to_read(upper_four_bits)
          start == SizeBytes - n
          rd == read_exact(h0.reader, n, drain)
          lower_four_bits == first_byte % 16
          element_type == ElementType[lower_four_bits + 1]
      IN IF n = 0
         THEN [ok |-> TRUE, header |-> Header(element_type, upper_four_bits),
               reader |-> h0.reader]
         ELSE IF ~rd.ok
         THEN [ok |-> FALSE, header |-> NoHeader, reader |-> rd.reader]
         ELSE [ok |-> TRUE,
               header |-> Header(element_type,
                                 from_be_bytes(Zeros(start) \o rd.buf)),
               reader |-> rd.reader]

(***************************************************************************)
(* Deserializer::drop_payload: the while loop reads the payload in chunks  *)
(* of at most 256 bytes.                                                   *)
(***************************************************************************)
RECURSIVE drop_payload_loop(_, _, _)
drop_payload_loop(r, remaining, drain) ==
    IF remaining > 0
    THEN LET len == Min(ChunkSize, remaining)
             rd == read_exact(r, len, drain)
         IN IF ~rd.ok THEN [ok |-> FALSE, reader |-> rd.reader]
            ELSE drop_payload_loop(rd.reader, remaining - len, drain)
    ELSE [ok |-> TRUE, reader |-> r]

drop_payload(r, h, drain) == drop_payload_loop(r, h.payload_size, drain)

\* Deserializer::read_bool
read_bool(r, h, drain) ==
    LET d == drop_payload(r, h, drain) IN
    IF ~d.ok THEN [res |-> Err("Io"), reader |-> d.reader]
    ELSE CASE h.element_type = "True" ->
                [res |-> Ok(BoolVal(TRUE)), reader |-> d.reader]
           [] h.element_type = "False" ->
                [res |-> Ok(BoolVal(FALSE)), reader |-> d.reader]
           [] OTHER ->
                [res |-> UnexpectedType(h.element_type), reader |-> d.reader]

\* read_null refusing a Null that declares a payload
read_null_strict(r, h, drain) ==
    IF h.element_type = "Null" /\ h.payload_size = 0
    THEN [res |-> Ok(UnitVal), reader |-> r]
    ELSE [res |-> UnexpectedType(h.element_type), reader |-> r]

\* Deserializer::read_null
read_null(r, h, drain) ==
    LET d == drop_payload(r, h, drain) IN
    IF ~d.ok THEN [res |-> Err("Io"), reader |-> d.reader]
    ELSE IF h.element_type = "Null"
         THEN [res |-> Ok(UnitVal), reader |-> d.reader]
         ELSE [res |-> UnexpectedType(h.element_type), reader |-> d.reader]

(***************************************************************************)
(* The literal parser crate::json (not part of de.rs).  It is handed the   *)
(* bounded view and reads it to its end: the text of the view must be one  *)
(* integer literal, and the value must fit the requested kind.             *)
(***************************************************************************)
IntKinds == {"i8", "i16", "i32", "i64", "u8", "u16", "u32", "u64"}

IsDigit(b) == b \in 48..57

RECURSIVE DigitsValue(_)
DigitsValue(s) ==
    IF s = <<>> THEN 0
    ELSE DigitsValue(SubSeq(s, 1, Len(s) - 1)) * 10 + (s[Len(s)] - 48)

\* digits of a JSON integer: one or more, no leading zero
IsDigits(s) ==
    /\ Len(s) >= 1
    /\ \A i \in 1..Len(s) : IsDigit(s[i])
    /\ (Len(s) > 1 => s[1] # 48)

\* the range of each integer kind; the literals of the model have at most
\* MaxBody + MaxExtra digits, which every 32- and 64-bit kind holds
InRange(kind, v) ==
    CASE kind = "i8" -> v >= -128 /\ v <= 127
      [] kind = "i16" -> v >= -32768 /\ v <= 32767
      [] kind = "u8" -> v >= 0 /\ v <= 255
      [] kind = "u16" -> v >= 0 /\ v <= 65535
      [] kind \in {"u32", "u64"} -> v >= 0
      [] OTHER -> TRUE

Literal(neg, digits, kind) ==
    IF ~IsDigits(digits) THEN [ok |-> FALSE, val |-> 0]
    ELSE LET v == IF neg THEN 0 - DigitsValue(digits) ELSE DigitsValue(digits)
         IN [ok |-> InRange(kind, v), val |-> v]

\* crate::json::parse_json
parse_json(view, kind) ==
    IF view # <<>> /\ view[1] = 45
    THEN Literal(TRUE, SubSeq(view, 2, Len(view)), kind)
    ELSE Literal(FALSE, view, kind)

\* crate::json::parse_json5: JSON5 also admits a leading plus sign, after
\* which the text is read as by parse_json
parse_json5(view, kind) ==
    IF view # <<>> /\ view[1] = 43
    THEN parse_json(SubSeq(view, 2, Len(view)), kind)
    ELSE parse_json(view, kind)

(***************************************************************************)
(* How far into the view a parser has read when it returns.  A parser that *)
(* reads the view to its end before it parses has read all of it.  A       *)
(* streaming parser reads byte by byte: it has read the longest prefix     *)
(* that can begin an integer literal and the one byte after it that showed *)
(* the literal had ended (or the whole view when it ends first), so a      *)
(* literal it accepts has been read with the view to its end.              *)
(***************************************************************************)
RECURSIVE DigitRun(_, _)
DigitRun(s, i) ==
    IF i <= Len(s) /\ IsDigit(s[i]) THEN 1 + DigitRun(s, i + 1) ELSE 0

\* the length of the longest prefix of the view that begins a literal
LiteralPrefix(view) ==
    LET sign == IF view # <<>> /\ view[1] = 45 THEN 1 ELSE 0
        run == DigitRun(view, sign + 1)
    IN sign + (IF run >= 1 /\ view[sign + 1] = 48 THEN 1 ELSE run)

json_read(view, stream) ==
    IF stream THEN Min(Len(view), LiteralPrefix(view) + 1) ELSE Len(view)

json5_read(view, stream) ==
    IF stream /\ view # <<>> /\ view[1] = 43
    THEN 1 + json_read(SubSeq(view, 2, Len(view)), stream)
    ELSE json_read(view, stream)

\* a view that is not limited
take_unbounded(r, limit) == r

(***************************************************************************)
(* Read::take(limit): the view ends after limit bytes or where the         *)
(* underlying reader ends, whichever comes first.                          *)
(***************************************************************************)
take(r, limit) == SubSeq(r, 1, Min(limit, Len(r)))

(***************************************************************************)
(* Deserializer::read_json_compatible.  The parser reads from the bounded  *)
(* view; the reader is left where the parser stopped reading, since        *)
(* nothing drains the rest of the view.  stream tells which kind of parser *)
(* the crate is built with.                                                *)
(***************************************************************************)
read_json_compatible(r, h, kind, stream) ==
    LET limit == h.payload_size
        view == take(r, limit)
        p == parse_json(view, kind)
        used == json_read(view, stream)
    IN [res |-> IF p.ok THEN Ok(IntVal(p.val)) ELSE Err("Json"),
        reader |-> SubSeq(r, used + 1, Len(r))]

\* Deserializer::read_json5_compatible
read_json5_compatible(r, h, kind, stream) ==
    LET limit == h.payload_size
        view == take(r, limit)
        p == parse_json5(view, kind)
        used == json5_read(view, stream)
    IN [res |-> IF p.ok THEN Ok(IntVal(p.val)) ELSE Err("Json"),
        reader |-> SubSeq(r, used + 1, Len(r))]

\* read_integer taking the numeric text of a Float element as well
read_integer_coerce(r, h, kind, stream) ==
    CASE h.element_type \in {"Int", "Float"} ->
           read_json_compatible(r, h, kind, stream)
      [] h.element_type \in {"Int5", "Float5"} ->
           read_json5_compatible(r, h, kind, stream)
      [] OTHER -> [res |-> UnexpectedType(h.element_type), reader |-> r]

\* Deserializer::read_integer
read_integer(r, h, kind, stream) ==
    CASE h.element_type = "Int" -> read_json_compatible(r, h, kind, stream)
      [] h.element_type = "Int5" -> read_json5_compatible(r, h, kind, stream)
      [] OTHER -> [res |-> UnexpectedType(h.element_type), reader |-> r]

(***************************************************************************)
(* The inputs.  An input is a first byte (every length mode and every      *)
(* element tag), the length field its mode asks for, a literal text and    *)
(* extra bytes; headers cut short are added for the four longer modes.     *)
(***************************************************************************)
\* the number of length bytes that follow the first byte b
TrailingBytes(b) ==
    IF b \div 16 <= 11 THEN 0 ELSE 2 ^ ((b \div 16) - 12)

SeqsUpTo(S, n) == UNION { [1..m -> S] : m \in 0..n }

\* '-' and '2'
BodyBytes == {45, 50}
\* 0x07, an empty Text element
ExtraBytes == {7}
Bodies == SeqsUpTo(BodyBytes, MaxBody)
Extras == SeqsUpTo(ExtraBytes, MaxExtra)

\* length fields of k bytes: zero-extended small lengths, and two lengths
\* that need the second lowest byte
LenFields(k) ==
    IF k = 0 THEN { <<>> }
    ELSE { Zeros(k - 1) \o <<b>> : b \in 0..MaxLenByte }
         \cup (IF k = 1 THEN {}
               ELSE { Zeros(k - 2) \o <<1, b>> : b \in 0..1 })

\* payloads longer than one chunk of drop_payload
LongTails == { Zeros(ChunkSize), Zeros(ChunkSize + 1) }

Tails == { b \o e : b \in Bodies, e \in Extras } \cup LongTails

Inputs ==
    { <<>> } \cup
    UNION { { <<f>> \o l \o tl : l \in LenFields(TrailingBytes(f)),
                                 tl \in Tails }
            : f \in 0..255 }
    \cup
    UNION { { SubSeq(<<f>> \o l, 1, c) :
                l \in LenFields(TrailingBytes(f)),
                c \in 1..TrailingBytes(f) }
            : f \in {195, 211, 227, 243} }

\* the entry points with a body, and some of those that are todo!()
ReadingShapes == {"any", "bool"} \cup IntKinds
TodoShapes == {"unit", "map"}
Shapes == ReadingShapes \cup TodoShapes

Consumed == Len(input) - Len(reader)

\* what an entry point hands back: its result, the reader it leaves, and
\* the header it read (NoHeader when read_header failed)
Outcome(hd, out) ==
    [res |-> out.res, reader |-> out.reader,
     header |-> (IF hd.ok THEN hd.header ELSE NoHeader),
     hdr_reader |-> hd.reader]

\* `let header = self.read_header()?` failing
HeaderFailed(hd) == [res |-> Err("Io"), reader |-> hd.reader]

\* <&mut Deserializer as de::Deserializer>::deserialize_any
any_outcome(r, drain) ==
    LET hd == read_header(r, drain)
        h == hd.header
    IN Outcome(hd,
         IF ~hd.ok THEN HeaderFailed(hd)
         ELSE CASE h.element_type = "Null" -> read_null(hd.reader, h, drain)
                [] h.element_type \in {"True", "False"} ->
                     read_bool(hd.reader, h, drain)
                [] OTHER -> [res |-> Panic, reader |-> hd.reader])

\* deserialize_bool
bool_outcome(r, drain) ==
    LET hd == read_header(r, drain) IN
    Outcome(hd, IF ~hd.ok THEN HeaderFailed(hd)
                ELSE read_bool(hd.reader, hd.header, drain))

\* deserialize_i8 .. deserialize_u64
int_outcome(r, kind, drain, stream) ==
    LET hd == read_header(r, drain) IN
    Outcome(hd, IF ~hd.ok THEN HeaderFailed(hd)
                ELSE read_integer(hd.reader, hd.header, kind, stream))

\* from_bytes: `if deserializer.reader.is_empty() { Ok(t) } else { Err(..) }`
trailing_check(value, r) ==
    IF r = <<>> THEN value ELSE Err("TrailingCharacters")

\* from_bytes::<T> for an integer T, as a function of the input
from_bytes_int(s, kind) ==
    LET o == int_outcome(s, kind, FALSE, FALSE) IN
    IF o.res.kind = "Ok" THEN trailing_check(o.res, o.reader) ELSE o.res

Init ==
    /\ input \in Inputs
    /\ shape \in Shapes
    /\ reader = input
    /\ header = NoHeader
    /\ after_header = -1
    /\ t = NoResult
    /\ result = NoResult
    /\ pc = "start"

\* T::deserialize(&mut deserializer) has returned o: Ok goes on to the
\* trailing-data check, Err is returned by `?`, a panic unwinds
Returned(o) ==
    /\ header' = o.header
    /\ after_header' = (IF o.header # NoHeader
                        THEN Len(input) - Len(o.hdr_reader) ELSE -1)
    /\ t' = o.res
    /\ reader' = o.reader
    /\ pc' = (IF o.res.kind = "Ok" THEN "deserialized" ELSE "done")
    /\ result' = (IF o.res.kind = "Ok" THEN NoResult ELSE o.res)
    /\ UNCHANGED <<input, shape>>

deserialize_any ==
    /\ pc = "start"
    /\ shape = "any"
    /\ \E drain \in BOOLEAN : Returned(any_outcome(reader, drain))

deserialize_bool ==
    /\ pc = "start"
    /\ shape = "bool"
    /\ \E drain \in BOOLEAN : Returned(bool_outcome(reader, drain))

deserialize_int ==
    /\ pc = "start"
    /\ shape \in IntKinds
    /\ \E drain \in BOOLEAN, stream \in BOOLEAN :
         Returned(int_outcome(reader, shape, drain, stream))

\* the entry points whose body is todo!()
deserialize_todo ==
    /\ pc = "start"
    /\ shape \in TodoShapes
    /\ t' = Panic
    /\ result' = Panic
    /\ pc' = "done"
    /\ UNCHANGED <<input, shape, reader, header, after_header>>

\* from_bytes, after T::deserialize returned Ok(t)
from_bytes ==
    /\ pc = "deserialized"
    /\ result' = trailing_check(t, reader)
    /\ pc' = "done"
    /\ UNCHANGED <<input, shape, reader, header, after_header, t>>

Next ==
    \/ deserialize_any
    \/ deserialize_bool
    \/ deserialize_int
    \/ deserialize_todo
    \/ from_bytes

Spec == Init /\ [][Next]_vars

TypeOK ==
    /\ pc \in {"start", "deserialized", "done"}
    /\ Len(reader) <= Len(input)

(***************************************************************************)
(* The binary format as section 6 of the specification states it, read     *)
(* off the input bytes independently of read_header.                       *)
(***************************************************************************)
\* big-endian unsigned value of a byte string
RECURSIVE BigEndian(_, _)
BigEndian(s, acc) ==
    IF s = <<>> THEN acc ELSE BigEndian(Tail(s), acc * 256 + Head(s))

\* the element tag of the low nibble n
TagTable ==
    [n \in 0..15 |->
       CASE n = 0 -> "Null" [] n = 1 -> "True" [] n = 2 -> "False"
         [] n = 3 -> "Int" [] n = 4 -> "Int5" [] n = 5 -> "Float"
         [] n = 6 -> "Float5" [] n = 7 -> "Text" [] n = 8 -> "TextJ"
         [] n = 9 -> "Text5" [] n = 10 -> "TextRaw" [] n = 11 -> "Array"
         [] n = 12 -> "Object" [] n = 13 -> "Reserved13"
         [] n = 14 -> "Reserved14" [] OTHER -> "Reserved15"]

\* the input holds a whole header
HasHeader == Len(input) >= 1 /\ Len(input) >= 1 + TrailingBytes(input[1])
HeaderLen == 1 + TrailingBytes(input[1])
Tag == TagTable[input[1] % 16]
\* the payload size the header declares
Declared ==
    IF TrailingBytes(input[1]) = 0 THEN input[1] \div 16
    ELSE BigEndian(SubSeq(input, 2, HeaderLen), 0)
\* the bytes after the header
Rest == SubSeq(input, HeaderLen + 1, Len(input))
\* an entry point with a body has returned
Decoded == pc # "start" /\ shape \in ReadingShapes

(***************************************************************************)
(* C1.  read_header, started on an input with at least 1 + k bytes,        *)
(* consumes exactly 1 + k bytes, where k is 0 for a high nibble of 0..11   *)
(* and 1, 2, 4, 8 for 12, 13, 14, 15; the element type is the low nibble   *)
(* mapped through the 16-entry table, and payload_size is the high nibble  *)
(* when k = 0 and otherwise the k following bytes as a big-endian unsigned *)
(* integer.                                                                *)
(***************************************************************************)
C1_ReadHeaderContract ==
    (Decoded /\ HasHeader) =>
        /\ after_header = HeaderLen
        /\ header.element_type = Tag
        /\ header.payload_size = Declared

\* the 9-byte header 0xf3 00 00 00 00 00 00 00 01 of test_read_header
C1_Witness ==
    /\ Decoded
    /\ Len(input) >= 9
    /\ SubSeq(input, 1, 9) = <<243, 0, 0, 0, 0, 0, 0, 0, 1>>
    /\ after_header = 9
    /\ header = Header("Int", 1)

(***************************************************************************)
(* C2.  Non-canonical header equivalence: for an Int element and any of    *)
(* the eight integer kinds, from_bytes returns the same result for every   *)
(* length mode that can express the payload's length: the direct nibble    *)
(* form for lengths up to 11, and the 1-, 2-, 4- and 8-byte zero-extended  *)
(* big-endian forms.                                                       *)
(***************************************************************************)
\* the k-byte big-endian form of the length n
LengthField(k, n) ==
    [i \in 1..k |-> IF k - i >= 3 THEN 0 ELSE (n \div (256 ^ (k - i))) % 256]

\* the length modes (0 stands for the direct form) that can express n
ModesFor(n) ==
    (IF n <= 11 THEN {0} ELSE {}) \cup (IF n <= 255 THEN {12} ELSE {})
    \cup (IF n <= 65535 THEN {13} ELSE {}) \cup {14, 15}

\* the Int element with the given payload, its header in the given mode
EncodeInt(mode, payload) ==
    IF mode = 0 THEN <<Len(payload) * 16 + 3>> \o payload
    ELSE <<mode * 16 + 3>>
         \o LengthField(2 ^ (mode - 12), Len(payload)) \o payload

\* the input is one Int element whose header declares its exact length
IsIntElement == HasHeader /\ Tag = "Int" /\ Declared = Len(Rest)

C2_HeaderEquivalence ==
    (pc = "done" /\ shape \in IntKinds /\ IsIntElement) =>
        \A mode \in ModesFor(Len(Rest)) :
            result = from_bytes_int(EncodeInt(mode, Rest), shape)

\* the literal behind the longest of its five headers decodes, as in
\* test_decoding_1
C2_Witness ==
    /\ pc = "done"
    /\ shape = "u8"
    /\ input = <<243, 0, 0, 0, 0, 0, 0, 0, 1, 50>>
    /\ result = Ok(IntVal(2))

(***************************************************************************)
(* C3.  Trailing-byte rejection: from_bytes fails with TrailingCharacters  *)
(* whenever the top-level element decoded and a byte remains, and returns  *)
(* the value only when the source is empty; a source holding the Null      *)
(* element 0x00 and one extra byte fails with TrailingCharacters, and the  *)
(* source 0x00 alone succeeds.                                             *)
(***************************************************************************)
\* the requests a Null element answers: the unit type and a self-describing
\* target
NullShapes == {"unit", "any"}

C3_TrailingRejection ==
    pc = "done" =>
        /\ (t.kind = "Ok" /\ reader # <<>>) =>
               result = Err("TrailingCharacters")
        /\ result.kind = "Ok" => reader = <<>>
        /\ (shape \in NullShapes /\ Len(input) = 2 /\ input[1] = 0) =>
               result = Err("TrailingCharacters")
        /\ (shape \in NullShapes /\ input = <<0>>) => result = Ok(UnitVal)

(***************************************************************************)
(* C4.  Whatever the element type and the requested shape (any, bool, an   *)
(* integer kind), an element whose header declares more payload bytes than *)
(* the input has left ends in a truncated-read error and never in a value. *)
(* The formula is the second half, which the first implies: no value.      *)
(***************************************************************************)
C4_OversizeNeverDecodes ==
    (Decoded /\ HasHeader /\ Declared > Len(Rest)) => t.kind # "Ok"

(***************************************************************************)
(* C5.  payload_size is exact: whenever an entry point (any, bool, an      *)
(* integer kind) decodes an element, the reader has advanced by exactly    *)
(* the header length plus the declared payload_size.                       *)
(***************************************************************************)
C5_PayloadExact ==
    (Decoded /\ t.kind = "Ok") => Consumed = HeaderLen + Declared

(***************************************************************************)
(* C6.  Reserved-tag rejection: for every entry point with a body, an      *)
(* element whose low nibble is 13, 14 or 15 fails with UnexpectedType      *)
(* carrying the reserved tag, whatever payload_size it declares and        *)
(* however many payload bytes are present.                                 *)
(***************************************************************************)
C6_ReservedRejected ==
    (Decoded /\ HasHeader /\ input[1] % 16 >= 13) => t = UnexpectedType(Tag)

(***************************************************************************)
(* C7.  No coercion between scalar families: an integer request on an      *)
(* element that is neither Int nor Int5, and a bool request on an element  *)
(* that is neither True nor False, never yields a value; the call fails,   *)
(* and a type error names the element type of the header.                  *)
(***************************************************************************)
C7_NoCoercion ==
    (/\ pc # "start"
     /\ Len(input) >= 1
     /\ \/ shape \in IntKinds /\ Tag \notin {"Int", "Int5"}
        \/ shape = "bool" /\ Tag \notin {"True", "False"})
    => /\ t.kind = "Err"
       /\ t.err = "UnexpectedType" => t.etype = Tag

\* an integer request meets a Float element that holds an integer text
C7_Witness ==
    /\ pc = "done"
    /\ shape = "i16"
    /\ input = <<21, 50>>
    /\ result = UnexpectedType("Float")

(***************************************************************************)
(* C8.  In deserialize_any a Null, True or False element with any declared *)
(* payload_size p whose p bytes are present is accepted: the p bytes are   *)
(* drained whatever they hold, and the result is unit, true or false.      *)
(***************************************************************************)
C8_DrainTolerated ==
    (/\ pc # "start" /\ shape = "any" /\ HasHeader
     /\ input[1] % 16 <= 2 /\ Declared <= Len(Rest))
    => /\ t = Ok(CASE Tag = "Null" -> UnitVal
                   [] Tag = "True" -> BoolVal(TRUE)
                   [] OTHER -> BoolVal(FALSE))
       /\ Consumed = HeaderLen + Declared

\* a Null element declaring 257 payload bytes, all present: two chunks
C8_Witness ==
    /\ pc = "done"
    /\ shape = "any"
    /\ Len(input) = 260
    /\ SubSeq(input, 1, 3) = <<208, 1, 1>>
    /\ result = Ok(UnitVal)

(***************************************************************************)
(* C9.  Object parity: an Object element whose payload holds an odd number *)
(* of child elements fails with a malformed-composite error, and one with  *)
(* 2n children decodes into n pairs.  The children here are empty Text     *)
(* elements (0x07), one byte each.                                         *)
(***************************************************************************)
C9_ObjectParity ==
    (/\ pc # "start" /\ shape \in {"any", "map"} /\ HasHeader
     /\ Tag = "Object" /\ Declared = Len(Rest)
     /\ \A i \in 1..Len(Rest) : Rest[i] = 7)
    => IF Len(Rest) % 2 = 1
       THEN t = Err("MalformedComposite")
       ELSE t = Ok(<<"map", Len(Rest) \div 2>>)

(***************************************************************************)
(* C10.  No over-consumption: whether an entry point (any, bool, an        *)
(* integer kind) succeeds or fails, it never reads past the header and the *)
(* declared payload of the element it decodes.                             *)
(***************************************************************************)
C10_NoOverConsumption ==
    /\ Consumed <= Len(input)
    /\ (Decoded /\ Len(input) >= 1) =>
          Consumed <= HeaderLen + (IF HasHeader THEN Declared ELSE 0)
    /\ shape \in TodoShapes => Consumed = 0

\* an Int element followed by a byte that would extend its literal
C10_Witness ==
    /\ pc = "done"
    /\ shape = "i64"
    /\ input = <<19, 50, 50>>
    /\ t = Ok(IntVal(2))
    /\ reader = <<50>>
    /\ result = Err("TrailingCharacters")
====
